---------------------------- MODULE Spec2Model ----------------------------
(***************************************************************************)
(* Atmora front end: the asynchronous analysis session of WeatherForm      *)
(* (PredictionForm has the same shape: isPredicting for isAnalyzing,       *)
(* predictionResults for analysisResults, no charts).                      *)
(*                                                                         *)
(* The page (app/page.tsx) renders the form unconditionally and passes     *)
(* isOpen; the form returns null while isOpen is false but stays mounted,  *)
(* so its state and its timers survive a close.  Time is abstracted: a     *)
(* setInterval timer is a task id in pollIntervals whose callback may fire *)
(* at any moment, and every awaited network call is a request in flight    *)
(* that is answered by a later step.                                       *)
(***************************************************************************)
EXTENDS Integers, FiniteSets, Sequences, TLC

\* ------------------------------------------------------------------ bounds
MaxTasks == 2
MaxInFlight == 2

\* How many times one place may be clicked into one polygon
MaxRepeats == 2

\* How many points one double-click polygon may collect
MaxPolygonPoints == 3

\* How many analyzePopulation calls may be in flight
MaxPopulationRequests == 2

\* How long a point list the geometry functions are called on
MaxListLen == 4

\* --------------------------------------------------------------- constants
\* useState<string | null>(null): no task id, and no summary/charts stored
NoTask == 0
\* useState<string | null>(null) for error; selectedLocation null
Null == "null"
NoLocation == <<>>

TaskIds == 1..MaxTasks
Locations == {<<41, 29>>}

\* A map coordinate is <<lat, lng>>; useState<LatLng | null>(null)
NoPoint == <<>>
\* The coordinates the pointer visits: a triangle and a point strictly inside it
MapPoints == {<<0, 0>>, <<0, 3>>, <<3, 0>>, <<1, 1>>}
\* `if (points.length < 8)` of SquareSelector
PointCap == 8
\* The tools of the toolbar over LeafletMapUpdated, and over LeafletMap
\* The places clicked on LeafletMap
LeafletPoints == {<<0, 0>>, <<0, 3>>}

\* Where the pointer rests over the polygon drawer and over LeafletMap
CursorPoints == {<<1, 1>>}

Tools == {"marker", "square", "circle", "rectangle"}
DrawingModes == {"point", "circle", "rectangle", "polygon"}
Percentages == {10, 55}
Formats == {"csv", "json"}

VARIABLES
    \* app/page.tsx
    selectedLocation,   \* NoLocation or <<latitude, longitude>>
    isWeatherFormOpen,  \* the isOpen prop of WeatherForm
    mounted,            \* the page (and with it the form) is mounted
    \* WeatherForm.tsx useState
    isAnalyzing,
    currentTaskId,
    progress,           \* [task, percentage, completed]; task = NoTask for null
    analysisResults,    \* id of the task whose summary is stored, or NoTask
    charts,             \* id of the task whose charts are stored, or NoTask
    error,              \* Null or the message
    \* timers and network
    pollIntervals,      \* task ids with a live setInterval timer
    pollRequests,       \* [task -> number of getProgress calls in flight]
    submitRequests,     \* startAnalysis calls in flight (attempt numbers)
    submitCount,        \* startAnalysis calls issued so far
    exportRequests,     \* task ids with an exportData call in flight
    cleanupRequests,    \* task ids a DELETE cleanup was issued for
    settled,            \* history: task ids whose callback has called clearInterval
    submitIgnored,      \* history: handleSubmit has returned at `if (!selectedLocation) return`
    \* app/page.tsx and LeafletMapUpdated.tsx with its selectors
    selectedTool,       \* the mode prop of LeafletMapUpdated
    markerPosition,     \* MapComponent useState
    circle,             \* CircleSelector useState: center, radius, isDrawing, cursorPosition
    rectangle,          \* RectangleSelector useState: startPoint, endPoint, isDrawing, cursorPosition
    square,             \* SquareSelector useState: points, cursorPosition
    \* LeafletMap with MapEvents (the single-component map)
    drawingMode,        \* the drawingMode prop
    mapEvents,          \* MapEvents useState: isDrawing, startPoint, polygonPoints, mousePosition
    selectedPoint,      \* LeafletMap useState
    drawnShapes,        \* LeafletMap useState
    previewShape,       \* LeafletMap useState
    emitted,            \* the outward calls made by the latest map event handler
    \* the page with population analysis
    selectedGeometry,       \* NoGeometry or the geometry last selected
    isPopulationModalOpen,
    populationData,         \* Null or the PopulationData of the answer stored last,
                            \* written as the geometry type of the request it answers
    isLoadingPopulation,
    populationRequests,     \* payloads of the analyzePopulation calls in flight
    latestPopulationRequest,    \* history: payload of the call issued last
    \* the geometry functions called on their own
    argPoints,          \* the point list passed
    calledFn,           \* Null or the function called last
    returned            \* what it returned

formState == <<isAnalyzing, currentTaskId, progress, analysisResults, charts, error>>
pageState == <<selectedLocation, isWeatherFormOpen, mounted>>
netState == <<pollIntervals, pollRequests, submitRequests, submitCount,
              exportRequests, cleanupRequests>>
history == <<settled, submitIgnored>>
selectorState == <<selectedTool, markerPosition, circle, rectangle, square>>
leafletState == <<drawingMode, mapEvents, selectedPoint, drawnShapes, previewShape>>
populationState == <<selectedGeometry, isPopulationModalOpen, populationData,
                     isLoadingPopulation, populationRequests, latestPopulationRequest>>
callState == <<argPoints, calledFn, returned>>
drawState == <<selectorState, leafletState, emitted, populationState, callState>>
vars == <<pageState, formState, netState, history, drawState>>

NullProgress == [task |-> NoTask, percentage |-> 0, completed |-> FALSE]

\* The useState initial values of the selectors and of MapEvents
CircleInit == [center |-> NoPoint, radius |-> 0, isDrawing |-> FALSE, cursorPosition |-> NoPoint]
RectangleInit == [startPoint |-> NoPoint, endPoint |-> NoPoint, isDrawing |-> FALSE,
                  cursorPosition |-> NoPoint]
SquareInit == [points |-> <<>>, cursorPosition |-> NoPoint]
MapEventsInit == [isDrawing |-> FALSE, startPoint |-> NoPoint, polygonPoints |-> <<>>,
                  mousePosition |-> NoPoint]
\* useState<any>(null) of selectedGeometry
NoGeometry == [type |-> Null]

\* The points the geometry functions are called on: a triangle, a point inside
\* it and one more on the line through the corner and the inner point
GeoPoints == {<<0, 0>>, <<0, 3>>, <<3, 0>>, <<1, 1>>, <<2, 2>>}

PointLists == UNION {[1..n -> GeoPoints] : n \in 0..MaxListLen}

\* useState<any>(null) of previewShape
NoPreview == [type |-> Null]

\* ------------------------------------------------------- values in flight
\* A thrown value: every throw of lib/weather-api.ts and of fetch is an Error
\* carrying a message
ErrorOf(m) == [isError |-> TRUE, message |-> m]

\* JavaScript `a || b` on a nullable string
OrElse(a, b) == IF a = Null \/ a = "" THEN b ELSE a

\* JavaScript truthiness of a nullable string
Truthy(s) == s # Null /\ s # ""

\* `err instanceof Error ? err.message : fallback`
ErrMessage(err, fallback) == IF err.isError THEN err.message ELSE fallback

\* Bodies of a non-OK HTTP answer: { error?: string }
HttpErrorBodies == {Null, "", "server error"}

\* What fetch itself throws when the transport fails
TransportError == ErrorOf("Failed to fetch")

\* What an api call can throw: `throw new Error(error.error || fallback)` on a
\* non-OK answer, or the transport's own error
ApiThrows(fallback) == {ErrorOf(OrElse(b, fallback)) : b \in HttpErrorBodies}
                           \cup {TransportError}

\* The ProgressResponse objects the progress endpoint can answer for task t
PollResponses(t) ==
    {[task |-> t, percentage |-> p, completed |-> FALSE, summary |-> FALSE,
      charts |-> FALSE, error |-> e] : p \in Percentages, e \in {Null, ""}}
    \cup {[task |-> t, percentage |-> 100, completed |-> TRUE, summary |-> s,
           charts |-> s, error |-> Null] : s \in BOOLEAN}
    \cup {[task |-> t, percentage |-> p, completed |-> FALSE, summary |-> FALSE,
           charts |-> FALSE, error |-> "analysis error"] : p \in Percentages}
    \cup {[task |-> t, percentage |-> 100, completed |-> TRUE, summary |-> TRUE,
           charts |-> TRUE, error |-> "analysis error"]}

TypeOK ==
    /\ selectedLocation = NoLocation \/ Len(selectedLocation) = 2
    /\ isWeatherFormOpen \in BOOLEAN /\ mounted \in BOOLEAN
    /\ isAnalyzing \in BOOLEAN
    /\ currentTaskId \in TaskIds \cup {NoTask}
    /\ progress.task \in TaskIds \cup {NoTask}
    /\ analysisResults \in TaskIds \cup {NoTask}
    /\ charts \in TaskIds \cup {NoTask}
    /\ error \in STRING
    /\ pollIntervals \subseteq TaskIds
    /\ pollRequests \in [TaskIds -> 0..MaxInFlight]
    /\ submitRequests \subseteq TaskIds
    /\ submitCount \in 0..MaxTasks
    /\ exportRequests \subseteq TaskIds
    /\ cleanupRequests \subseteq TaskIds
    /\ settled \subseteq TaskIds
    /\ submitIgnored \in BOOLEAN
    /\ selectedTool \in Tools \cup {Null}
    /\ markerPosition \in MapPoints \cup {<<39, 35>>}
    /\ circle.center \in MapPoints \cup {NoPoint}
    /\ circle.radius \in Nat /\ circle.isDrawing \in BOOLEAN
    /\ rectangle.startPoint \in MapPoints \cup {NoPoint}
    /\ rectangle.endPoint \in MapPoints \cup {NoPoint}
    /\ rectangle.isDrawing \in BOOLEAN
    /\ \A i \in 1..Len(square.points) : square.points[i] \in MapPoints
    /\ drawingMode \in DrawingModes \cup {Null}
    /\ mapEvents.isDrawing \in BOOLEAN
    /\ mapEvents.startPoint \in MapPoints \cup {NoPoint}
    /\ \A i \in 1..Len(mapEvents.polygonPoints) : mapEvents.polygonPoints[i] \in MapPoints
    /\ selectedPoint = NoPoint \/ Len(selectedPoint) = 2
    /\ Len(drawnShapes) <= 1
    /\ Len(emitted) <= 2
    /\ selectedGeometry.type \in {Null, "marker", "square", "rectangle", "circle"}
    /\ isPopulationModalOpen \in BOOLEAN
    /\ populationData \in {Null, "square", "rectangle", "circle"}
    /\ isLoadingPopulation \in BOOLEAN
    /\ Len(populationRequests) <= MaxPopulationRequests
    /\ latestPopulationRequest.type \in {Null, "square", "rectangle", "circle"}
    /\ Len(argPoints) <= MaxListLen
    /\ calledFn \in STRING

\* The state after the page and its components are constructed
InitPage ==
    /\ selectedLocation = NoLocation
    /\ isWeatherFormOpen = FALSE
    /\ mounted = TRUE
    /\ isAnalyzing = FALSE
    /\ currentTaskId = NoTask
    /\ progress = NullProgress
    /\ analysisResults = NoTask
    /\ charts = NoTask
    /\ error = Null
    /\ pollIntervals = {}
    /\ pollRequests = [t \in TaskIds |-> 0]
    /\ submitRequests = {}
    /\ submitCount = 0
    /\ exportRequests = {}
    /\ cleanupRequests = {}
    /\ settled = {}
    /\ submitIgnored = FALSE
    /\ selectedTool = Null
    /\ markerPosition = <<39, 35>>
    /\ circle = CircleInit
    /\ rectangle = RectangleInit
    /\ square = SquareInit
    /\ drawingMode = Null
    /\ mapEvents = MapEventsInit
    /\ selectedPoint = NoPoint
    /\ drawnShapes = <<>>
    /\ previewShape = NoPreview
    /\ emitted = <<>>
    /\ selectedGeometry = NoGeometry
    /\ isPopulationModalOpen = FALSE
    /\ populationData = Null
    /\ isLoadingPopulation = FALSE
    /\ populationRequests = <<>>
    /\ latestPopulationRequest = NoGeometry

Init ==
    /\ InitPage
    /\ argPoints = <<>>
    /\ calledFn = Null
    /\ returned = Null

\* A geometry function is about to be called on any short list of points
InitGeometry ==
    /\ InitPage
    /\ argPoints \in PointLists
    /\ calledFn = Null
    /\ returned = Null

\* ------------------------------------------------------------ React pieces
\* The form's JSX exists only while the page is mounted and isOpen is true
Rendered == mounted /\ isWeatherFormOpen

\* disabled={!selectedLocation || isAnalyzing} on the Analyze button
SubmitDisabled == selectedLocation = NoLocation \/ isAnalyzing

\* The body of the effect's cleanup function, closed over the values of the
\* render that installed it: the ids it sends DELETE cleanup for
CleanupEffect(taskId, analyzing) ==
    IF taskId # NoTask /\ ~analyzing THEN {taskId} ELSE {}

\* useEffect(..., [currentTaskId, isAnalyzing]): when a commit changes a
\* dependency React runs the previous render's cleanup before the new effect
EffectRerun(oldTask, oldAnalyzing, newTask, newAnalyzing) ==
    IF <<oldTask, oldAnalyzing>> # <<newTask, newAnalyzing>>
    THEN CleanupEffect(oldTask, oldAnalyzing)
    ELSE {}

\* A commit of the form's state: setState on an unmounted component is dropped
Commit(analyzing, taskId, prog, results, chartsOf, err) ==
    IF mounted
    THEN /\ isAnalyzing' = analyzing
         /\ currentTaskId' = taskId
         /\ progress' = prog
         /\ analysisResults' = results
         /\ charts' = chartsOf
         /\ error' = err
         /\ cleanupRequests' = cleanupRequests \cup
                EffectRerun(currentTaskId, isAnalyzing, taskId, analyzing)
    ELSE UNCHANGED <<formState, cleanupRequests>>

\* ------------------------------------------------------------ app/page.tsx
\* handleLocationSelect: a finalized selection of the map reaches the page
HandleLocationSelect(loc) ==
    /\ mounted
    /\ selectedLocation' = loc
    /\ UNCHANGED <<isWeatherFormOpen, mounted, formState, netState>>
    /\ UNCHANGED <<history, drawState>>

\* onWeatherClick
OnWeatherClick ==
    /\ mounted
    /\ isWeatherFormOpen' = TRUE
    /\ UNCHANGED <<selectedLocation, mounted, formState, netState>>
    /\ UNCHANGED <<history, drawState>>

\* onClose of WeatherForm (the X button or the backdrop), also what opening
\* another form does: setIsWeatherFormOpen(false)
OnClose ==
    /\ Rendered
    /\ isWeatherFormOpen' = FALSE
    /\ UNCHANGED <<selectedLocation, mounted, formState, netState>>
    /\ UNCHANGED <<history, drawState>>

\* The page is left: React unmounts the form and runs the effect's cleanup
\* with the values of the last render.  No timer is cleared.
Unmount ==
    /\ mounted
    /\ mounted' = FALSE
    /\ cleanupRequests' = cleanupRequests \cup CleanupEffect(currentTaskId, isAnalyzing)
    /\ UNCHANGED <<selectedLocation, isWeatherFormOpen, formState, pollIntervals,
                   pollRequests, submitRequests, submitCount, exportRequests>>
    /\ UNCHANGED <<history, drawState>>

\* ---------------------------------------------------------- WeatherForm.tsx
\* Mutant: handleSubmit without `if (!selectedLocation) return`
HandleSubmitUnguarded ==
    /\ submitCount < MaxTasks
    /\ Commit(TRUE, currentTaskId, progress, NoTask, NoTask, Null)
    /\ submitCount' = submitCount + 1
    /\ submitRequests' = submitRequests \cup {submitCount + 1}
    /\ UNCHANGED <<pageState, pollIntervals, pollRequests, exportRequests, history, drawState>>

\* handleSubmit up to its first await
HandleSubmit ==
    IF selectedLocation = NoLocation
    THEN /\ submitIgnored' = TRUE
         /\ UNCHANGED <<pageState, formState, netState, settled, drawState>>
    ELSE /\ submitCount < MaxTasks
         /\ Commit(TRUE, currentTaskId, progress, NoTask, NoTask, Null)
         /\ submitCount' = submitCount + 1
         /\ submitRequests' = submitRequests \cup {submitCount + 1}
         /\ UNCHANGED <<pageState, pollIntervals, pollRequests, exportRequests, history, drawState>>

\* The user presses the Analyze button (or Enter in a field, which the browser
\* turns into a click of the default button): nothing happens while disabled
SubmitClick ==
    /\ Rendered
    /\ ~SubmitDisabled
    /\ HandleSubmit

\* The form's submit event raised without the button (form.requestSubmit(), a
\* test harness firing submit): the handler runs whatever the button shows
SubmitEvent ==
    /\ Rendered
    /\ HandleSubmit

\* pollProgress(taskId): setInterval(callback, 2000)
PollProgress(taskId) == pollIntervals \cup {taskId}

\* startAnalysis resolved with { task_id }: the rest of handleSubmit's try block
StartAnalysisReturns(a) ==
    /\ a \in submitRequests
    /\ submitRequests' = submitRequests \ {a}
    /\ Commit(isAnalyzing, a, progress, analysisResults, charts, error)
    /\ pollIntervals' = PollProgress(a)
    /\ UNCHANGED <<pageState, pollRequests, submitCount, exportRequests>>
    /\ UNCHANGED <<history, drawState>>

\* Mutant: pollProgress is called although startAnalysis threw
StartAnalysisThrowsStillPolls(a, err) ==
    /\ a \in submitRequests
    /\ submitRequests' = submitRequests \ {a}
    /\ Commit(FALSE, currentTaskId, progress, analysisResults, charts,
              ErrMessage(err, "Analysis failed"))
    /\ pollIntervals' = pollIntervals \cup {a}
    /\ UNCHANGED <<pageState, pollRequests, submitCount, exportRequests>>
    /\ UNCHANGED <<history, drawState>>

\* startAnalysis threw: handleSubmit's catch block
StartAnalysisThrows(a, err) ==
    /\ a \in submitRequests
    /\ submitRequests' = submitRequests \ {a}
    /\ Commit(FALSE, currentTaskId, progress, analysisResults, charts,
              ErrMessage(err, "Analysis failed"))
    /\ UNCHANGED <<pageState, pollIntervals, pollRequests, submitCount, exportRequests>>
    /\ UNCHANGED <<history, drawState>>

\* getProgress calls in flight for the tasks of S
RECURSIVE InFlight(_)
InFlight(S) ==
    IF S = {} THEN 0
    ELSE LET t == CHOOSE x \in S : TRUE IN pollRequests[t] + InFlight(S \ {t})

\* The interval callback fires and calls api.getProgress(taskId).  The timer
\* does not wait for the previous callback's await to settle.
TickAllowed(t) == t \in pollIntervals

Tick(t) ==
    /\ TickAllowed(t)
    /\ InFlight(TaskIds) < MaxInFlight
    /\ pollRequests' = [pollRequests EXCEPT ![t] = @ + 1]
    /\ UNCHANGED <<pageState, formState, pollIntervals, submitRequests, submitCount,
                   exportRequests, cleanupRequests>>
    /\ UNCHANGED <<history, drawState>>

\* Mutant: the error branch forgets clearInterval and setIsAnalyzing(false)
ClearsIntervalOnCompletedOnly(data) == data.completed

\* Whether the callback calls clearInterval for this answer
ClearsInterval(data) == data.completed \/ Truthy(data.error)

\* getProgress resolved: the rest of the callback's try block
GetProgressReturns(t, data) ==
    /\ pollRequests[t] > 0
    /\ pollRequests' = [pollRequests EXCEPT ![t] = @ - 1]
    /\ pollIntervals' = IF ClearsInterval(data) THEN pollIntervals \ {t} ELSE pollIntervals
    /\ Commit(IF ClearsInterval(data) THEN FALSE ELSE isAnalyzing,
              currentTaskId,
              [task |-> t, percentage |-> data.percentage, completed |-> data.completed],
              IF data.completed /\ data.summary THEN t ELSE analysisResults,
              IF data.completed /\ data.charts THEN t ELSE charts,
              IF Truthy(data.error) THEN data.error ELSE error)
    /\ UNCHANGED <<pageState, submitRequests, submitCount, exportRequests>>
    /\ settled' = IF ClearsInterval(data) THEN settled \cup {t} ELSE settled
    /\ UNCHANGED <<submitIgnored, drawState>>

\* Mutant: a throwing getProgress is retried, the interval is left running
GetProgressThrowsRetries(t, err) ==
    /\ pollRequests[t] > 0
    /\ pollRequests' = [pollRequests EXCEPT ![t] = @ - 1]
    /\ Commit(FALSE, currentTaskId, progress, analysisResults, charts,
              ErrMessage(err, "Failed to get progress"))
    /\ UNCHANGED <<pageState, pollIntervals, submitRequests, submitCount, exportRequests>>
    /\ UNCHANGED <<history, drawState>>

\* getProgress threw: the callback's catch block
GetProgressThrows(t, err) ==
    /\ pollRequests[t] > 0
    /\ pollRequests' = [pollRequests EXCEPT ![t] = @ - 1]
    /\ pollIntervals' = pollIntervals \ {t}
    /\ Commit(FALSE, currentTaskId, progress, analysisResults, charts,
              ErrMessage(err, "Failed to get progress"))
    /\ UNCHANGED <<pageState, submitRequests, submitCount, exportRequests>>
    /\ settled' = settled \cup {t}
    /\ UNCHANGED <<submitIgnored, drawState>>

\* {analysisResults && (<CSV and JSON buttons>)}
ExportVisible == analysisResults # NoTask

\* downloadData(format) up to its await
DownloadData(format) ==
    /\ Rendered
    /\ ExportVisible
    /\ IF currentTaskId = NoTask
       THEN UNCHANGED exportRequests
       ELSE exportRequests' = exportRequests \cup {currentTaskId}
    /\ UNCHANGED <<pageState, formState, pollIntervals, pollRequests, submitRequests,
                   submitCount, cleanupRequests>>
    /\ UNCHANGED <<history, drawState>>

\* exportData resolved with the blob: the download link is clicked, no state
ExportDataReturns(r) ==
    /\ r \in exportRequests
    /\ exportRequests' = exportRequests \ {r}
    /\ UNCHANGED <<pageState, formState, pollIntervals, pollRequests, submitRequests,
                   submitCount, cleanupRequests>>
    /\ UNCHANGED <<history, drawState>>

\* Mutant: the catch block also drops the stored result
ExportDataThrowsDropsResult(r, err) ==
    /\ r \in exportRequests
    /\ exportRequests' = exportRequests \ {r}
    /\ Commit(isAnalyzing, currentTaskId, progress, NoTask, NoTask,
              ErrMessage(err, "Download failed"))
    /\ UNCHANGED <<pageState, pollIntervals, pollRequests, submitRequests, submitCount>>
    /\ UNCHANGED <<history, drawState>>

\* exportData threw: downloadData's catch block
ExportDataThrows(r, err) ==
    /\ r \in exportRequests
    /\ exportRequests' = exportRequests \ {r}
    /\ Commit(isAnalyzing, currentTaskId, progress, analysisResults, charts,
              ErrMessage(err, "Download failed"))
    /\ UNCHANGED <<pageState, pollIntervals, pollRequests, submitRequests, submitCount>>
    /\ UNCHANGED <<history, drawState>>

\* ------------------------------------------------------------ specification
PageNext ==
    \/ \E loc \in Locations : HandleLocationSelect(loc)
    \/ OnWeatherClick
    \/ OnClose
    \/ Unmount

AnalysisNext ==
    \/ \E a \in TaskIds : StartAnalysisReturns(a)
    \/ \E a \in TaskIds, err \in ApiThrows("Analysis request failed") :
           StartAnalysisThrows(a, err)
    \/ \E t \in TaskIds : Tick(t)
    \/ \E t \in TaskIds : \E data \in PollResponses(t) : GetProgressReturns(t, data)
    \/ \E t \in TaskIds, err \in ApiThrows("Failed to get progress") :
           GetProgressThrows(t, err)

ExportNext ==
    \/ \E f \in Formats : DownloadData(f)
    \/ \E r \in TaskIds : ExportDataReturns(r)
    \/ \E r \in TaskIds, err \in ApiThrows("Export failed") :
           ExportDataThrows(r, err)

Next ==
    \/ PageNext
    \/ SubmitClick
    \/ AnalysisNext
    \/ ExportNext

Spec == Init /\ [][Next]_vars

\* The analysis session of a page that stays mounted, with the submit event
\* raised on the form itself, so that handleSubmit also runs while the Analyze
\* button is disabled (exports left out: they touch nothing handleSubmit or
\* the poll loop reads)
NextDirect ==
    \/ \E loc \in Locations : HandleLocationSelect(loc)
    \/ OnWeatherClick
    \/ OnClose
    \/ SubmitEvent
    \/ AnalysisNext

SpecDirect == Init /\ [][NextDirect]_vars

\* The timer fires every 2 s while its interval is live, every call in flight
\* settles, and the backend eventually answers a poll with completed=true or
\* an error (or the call throws)
PollSettles(t) ==
    \/ \E data \in PollResponses(t) : GetProgressReturns(t, data)
    \/ \E err \in ApiThrows("Failed to get progress") : GetProgressThrows(t, err)

PollStops(t) ==
    \/ \E data \in PollResponses(t) : ClearsInterval(data) /\ GetProgressReturns(t, data)
    \/ \E err \in ApiThrows("Failed to get progress") : GetProgressThrows(t, err)

SubmitSettles(a) ==
    \/ StartAnalysisReturns(a)
    \/ \E err \in ApiThrows("Analysis request failed") : StartAnalysisThrows(a, err)

Fairness ==
    /\ \A t \in TaskIds : WF_vars(Tick(t))
    /\ \A t \in TaskIds : WF_vars(PollSettles(t))
    /\ \A t \in TaskIds : SF_vars(PollStops(t))
    /\ \A a \in TaskIds : WF_vars(SubmitSettles(a))

SpecFair == Init /\ [][Next]_vars /\ Fairness


\* --------------------------------------------------------- steps, by kind
\* Each kind of step is one of the actions above with its input narrowed.  The
\* leading conjunct is implied by the action; it only spares enumerating the
\* inputs on the steps that settle no call of that kind.

\* A getProgress call of task t settles in this step
PollSettled(t) == pollRequests'[t] < pollRequests[t]

\* A poll answer with completed=true is processed for task t
CompletedProcessed(t) ==
    /\ PollSettled(t)
    /\ \E data \in PollResponses(t) : data.completed /\ GetProgressReturns(t, data)

\* A poll answer carrying a non-empty error is processed for task t
ErrorAnswerProcessed(t) ==
    /\ PollSettled(t)
    /\ \E data \in PollResponses(t) : Truthy(data.error) /\ GetProgressReturns(t, data)

\* The getProgress call of task t throws
ThrowProcessed(t) ==
    /\ PollSettled(t)
    /\ \E err \in ApiThrows("Failed to get progress") : GetProgressThrows(t, err)

\* The startAnalysis call of attempt a throws
SubmitFailed(a) ==
    /\ a \in submitRequests \ submitRequests'
    /\ \E err \in ApiThrows("Analysis request failed") : StartAnalysisThrows(a, err)

\* The exportData call for task r throws
ExportFailed(r) ==
    /\ r \in exportRequests \ exportRequests'
    /\ \E err \in ApiThrows("Export failed") : ExportDataThrows(r, err)

\* ------------------------------------------------------------------ claims

\* C1: poll requests of one task are strictly sequential: at most one
\* getProgress call per task is outstanding at any time.
C1_PollsSequential == \A t \in TaskIds : pollRequests[t] <= 1

\* C2: when an answer with completed=true is processed the interval is
\* cleared and isAnalyzing becomes false, no getProgress is issued for that
\* task afterwards, and exactly as many polls were issued as answers were
\* processed (three for running, running, completed; never a fourth), i.e.
\* none is left in flight.
C2_CompletedEndsPolling ==
    [][\A t \in TaskIds :
          /\ CompletedProcessed(t) =>
                /\ t \notin pollIntervals'
                /\ mounted => ~isAnalyzing'
                /\ pollRequests'[t] = 0
          /\ t \in settled => pollRequests'[t] <= pollRequests[t]]_vars

\* The part of C2 the code keeps: processing completed=true clears the
\* interval and isAnalyzing, and no call is issued for a settled task.
NoPollAfterCompleted ==
    [][\A t \in TaskIds :
          /\ CompletedProcessed(t) =>
                (t \notin pollIntervals' /\ (mounted => ~isAnalyzing'))
          /\ t \in settled => pollRequests'[t] <= pollRequests[t]]_vars

\* C3: an answer with a non-empty error, or a throwing getProgress, fails the
\* session in that step: interval cleared, error a non-empty message,
\* isAnalyzing false (the stored result and task id are left alone by both), and
\* the loop of that task is never started again nor polls again.
C3_PollFailureFails ==
    [][\A t \in TaskIds :
          /\ ErrorAnswerProcessed(t) =>
                /\ t \notin pollIntervals'
                /\ t \in settled'
                /\ mounted => /\ Truthy(error')
                              /\ ~isAnalyzing'
                              /\ currentTaskId' = currentTaskId
          /\ ThrowProcessed(t) =>
                /\ t \notin pollIntervals'
                /\ t \in settled'
                /\ mounted => /\ Truthy(error')
                              /\ ~isAnalyzing'
                              /\ currentTaskId' = currentTaskId
                /\ UNCHANGED <<analysisResults, charts>>
          /\ t \in settled => /\ pollRequests'[t] <= pollRequests[t]
                              /\ t \notin pollIntervals']_vars

\* A session failed by a throwing getProgress: its task is settled, the
\* fallback message is shown and the button is enabled again
C3_Witness ==
    /\ mounted
    /\ currentTaskId \in settled
    /\ currentTaskId \notin pollIntervals
    /\ error = "Failed to get progress"
    /\ ~isAnalyzing

\* C4: closing or unmounting the form while isAnalyzing is true stops local
\* polling: no interval survives the teardown and no getProgress is issued
\* while the form is not rendered.
C4_TeardownStopsPolling ==
    [][/\ ((OnClose \/ Unmount) /\ isAnalyzing) => pollIntervals' = {}
       /\ \A t \in TaskIds : Tick(t) => Rendered]_vars

\* C5: unmounting while the submitted task is not terminal (isAnalyzing true)
\* issues cleanup(taskId) for that task.
C5_TeardownIssuesCleanup ==
    [][(Unmount /\ isAnalyzing /\ currentTaskId # NoTask)
          => currentTaskId \in cleanupRequests']_vars

\* C6: handleSubmit with no selected location returns before any network
\* call and changes nothing of the session; with a location it issues exactly
\* one startAnalysis, and when that resolves its task_id becomes currentTaskId
\* and the poll loop is started with that id (every poll is of a started loop).
C6_SubmitGuard ==
    [][/\ (SubmitEvent /\ selectedLocation = NoLocation) =>
              UNCHANGED <<pageState, formState, netState>>
       /\ (SubmitEvent /\ selectedLocation # NoLocation) =>
              /\ Cardinality(submitRequests' \ submitRequests) = 1
              /\ submitCount' = submitCount + 1
              /\ UNCHANGED <<pollIntervals, pollRequests>>
       /\ \A a \in TaskIds :
              StartAnalysisReturns(a) =>
                  /\ submitRequests' = submitRequests \ {a}
                  /\ pollIntervals' = pollIntervals \cup {a}
                  /\ mounted => currentTaskId' = a
       /\ \A t \in TaskIds :
              pollRequests'[t] > pollRequests[t] => t \in pollIntervals]_vars

\* A submit without a location was ignored, and a later one with a location
\* got task 1, which is the current task and is being polled
C6_Witness ==
    /\ submitIgnored
    /\ submitCount = 1
    /\ currentTaskId = 1
    /\ 1 \in pollIntervals
    /\ pollRequests[1] > 0

\* A startAnalysis attempt that threw: it is answered, and no loop was ever
\* started for it
FailedAttempt(a) ==
    /\ a <= submitCount
    /\ a \notin submitRequests
    /\ a \notin pollIntervals
    /\ a \notin settled

\* C7: when startAnalysis throws (transport error or non-OK answer) polling
\* never starts: no interval is created and no getProgress is ever issued for
\* that attempt, error is set to a message and isAnalyzing returns to false.
C7_SubmitFailureNeverPolls ==
    [][\A a \in TaskIds :
          /\ SubmitFailed(a) =>
                /\ UNCHANGED <<pollIntervals, pollRequests>>
                /\ FailedAttempt(a)'
                /\ mounted => (Truthy(error') /\ ~isAnalyzing')
          /\ FailedAttempt(a) => (FailedAttempt(a)' /\ pollRequests'[a] = 0)]_vars

\* The first attempt failed with the api's fallback message
C7_Witness ==
    /\ mounted
    /\ submitCount = 1
    /\ FailedAttempt(1)
    /\ error = "Analysis request failed"
    /\ ~isAnalyzing
    /\ currentTaskId = NoTask

\* C8: under SpecFair (calls settle, the backend eventually answers a poll
\* with completed=true or an error) every started poll loop is eventually
\* stopped by its callback and a mounted session that is analyzing eventually
\* shows isAnalyzing false with no interval left.
C8_NeverDangling ==
    /\ \A t \in TaskIds : (t \in pollIntervals) ~> (t \in settled /\ t \notin pollIntervals)
    /\ (mounted /\ isAnalyzing) ~> (~mounted \/ (~isAnalyzing /\ pollIntervals = {}))

\* A session that went through Polling and is terminal
C8_Witness ==
    /\ mounted
    /\ currentTaskId \in settled
    /\ progress.task = currentTaskId
    /\ ~isAnalyzing
    /\ pollIntervals = {}
    /\ submitRequests = {}

\* C9: an export is only issued while a Result is stored, and the task id
\* sent to exportData is the id of the task that produced that Result.
C9_ExportOfStoredResult ==
    [][\A f \in Formats :
          DownloadData(f) =>
              (analysisResults # NoTask /\ currentTaskId = analysisResults)]_vars

\* C10: a throwing exportData leaves analysisResults, charts, currentTaskId,
\* progress and isAnalyzing (and the timers and requests) as they were; only
\* the error message is set.
C10_ExportFailureKeepsResult ==
    [][\A r \in TaskIds :
          ExportFailed(r) =>
              /\ UNCHANGED <<analysisResults, charts, currentTaskId, progress, isAnalyzing>>
              /\ UNCHANGED <<pollIntervals, pollRequests, submitRequests, cleanupRequests>>
              /\ mounted => Truthy(error')]_vars

\* An export failed with the api's fallback message and the Result is still stored
C10_Witness ==
    /\ mounted
    /\ error = "Export failed"
    /\ analysisResults # NoTask
    /\ analysisResults = charts
    /\ ~isAnalyzing

\* ==================================================================== map
\* ------------------------------------------------------- numbers in the map
\* Coordinates of clicks are integers (degrees).  A value computed by a
\* division is kept as the exact fraction <<numerator, denominator>> in lowest
\* terms with a positive denominator.
Abs(n) == IF n < 0 THEN -n ELSE n

RECURSIVE Gcd(_, _)
Gcd(a, b) == IF b = 0 THEN a ELSE Gcd(b, a % b)

\* n / d, d # 0
Rat(n, d) ==
    IF d = 0
    THEN \* Infinity, -Infinity or NaN
         <<IF n > 0 THEN 1 ELSE IF n < 0 THEN -1 ELSE 0, 0>>
    ELSE LET g == Gcd(Abs(n), Abs(d))
             sgn == IF d < 0 THEN -1 ELSE 1
         IN <<sgn * (n \div g), sgn * (d \div g)>>

\* A LatLng of integers as a pair of fractions
RatPoint(p) == <<Rat(p[1], 1), Rat(p[2], 1)>>

Min(a, b) == IF a < b THEN a ELSE b
Max(a, b) == IF a > b THEN a ELSE b

\* Math.min(...xs) / Math.max(...xs) over a non-empty sequence of integers
RECURSIVE MinOf(_)
MinOf(xs) == IF Len(xs) = 1 THEN xs[1] ELSE Min(xs[1], MinOf(Tail(xs)))
RECURSIVE MaxOf(_)
MaxOf(xs) == IF Len(xs) = 1 THEN xs[1] ELSE Max(xs[1], MaxOf(Tail(xs)))

\* ----------------------------------------------------------- SquareSelector
\* The loop of convexHull that finds `bottom`: the index (1-based) of the
\* point with the least latitude, then the least longitude; the strict
\* comparisons keep the first such point
RECURSIVE BottomUpTo(_, _)
BottomUpTo(points, i) ==
    IF i = 1 THEN 1
    ELSE LET bottom == BottomUpTo(points, i - 1)
         IN IF \/ points[i][1] < points[bottom][1]
               \/ (points[i][1] = points[bottom][1] /\ points[i][2] < points[bottom][2])
            THEN i ELSE bottom

\* The list left as it is, the first point taken as pivot
SwapFirstNone(points, bottom) == points

\* [points[0], points[bottom]] = [points[bottom], points[0]]
SwapFirst(points, bottom) ==
    [i \in 1..Len(points) |->
        IF i = 1 THEN points[bottom] ELSE IF i = bottom THEN points[1] ELSE points[i]]

\* The comparison of the angles with <= in place of <, which puts a point
\* before the points of its own angle
AngleNotGreater(a, b, p0) ==
    LET aLat == a[1] - p0[1]
        aLng == a[2] - p0[2]
        bLat == b[1] - p0[1]
        bLng == b[2] - p0[2]
    IN IF aLat = 0 THEN TRUE
       ELSE IF bLat = 0 THEN FALSE
       ELSE aLng * bLat - aLat * bLng >= 0

\* Math.atan2(a[0] - p0[0], a[1] - p0[1]) < Math.atan2(b[0] - p0[0], b[1] - p0[1])
\* for a, b not below p0: a point level with p0 is not left of it (p0 is the
\* bottom point), so its angle is 0; above p0 the angles lie in (0, pi) and
\* are ordered by the sign of the cross product
AngleLess(a, b, p0) ==
    LET aLat == a[1] - p0[1]
        aLng == a[2] - p0[2]
        bLat == b[1] - p0[1]
        bLng == b[2] - p0[2]
    IN IF aLat = 0 THEN bLat > 0
       ELSE IF bLat = 0 THEN FALSE
       ELSE aLng * bLat - aLat * bLng > 0

\* One step of a stable sort: x goes before the first element of larger angle
RECURSIVE InsertByAngle(_, _, _)
InsertByAngle(sorted, x, p0) ==
    IF sorted = <<>> THEN <<x>>
    ELSE IF AngleLess(x, sorted[1], p0) THEN <<x>> \o sorted
    ELSE <<sorted[1]>> \o InsertByAngle(Tail(sorted), x, p0)

\* Array.prototype.sort with the comparator angleA - angleB (the sort is stable)
RECURSIVE SortByAngle(_, _)
SortByAngle(points, p0) ==
    IF points = <<>> THEN <<>>
    ELSE InsertByAngle(SortByAngle(SubSeq(points, 1, Len(points) - 1), p0),
                       points[Len(points)], p0)

\* convexHull
convexHull(points) ==
    IF Len(points) < 3 THEN points
    ELSE LET swapped == SwapFirst(points, BottomUpTo(points, Len(points)))
             p0 == swapped[1]
         IN <<p0>> \o SortByAngle(Tail(swapped), p0)

\* The sums of the loop of calculatePolygonCentroid over i = 1..n (j the next
\* index, cyclically): <<sum of crossProduct, centroidLat, centroidLng>>
RECURSIVE ShoelaceSums(_, _)
ShoelaceSums(points, i) ==
    IF i = 0 THEN <<0, 0, 0>>
    ELSE LET j == (i % Len(points)) + 1
             crossProduct == points[i][1] * points[j][2] - points[j][1] * points[i][2]
             rest == ShoelaceSums(points, i - 1)
         IN <<rest[1] + crossProduct,
              rest[2] + (points[i][1] + points[j][1]) * crossProduct,
              rest[3] + (points[i][2] + points[j][2]) * crossProduct>>

\* points.reduce((sum, point) => sum + point[k], 0)
RECURSIVE SumOf(_, _)
SumOf(points, k) == IF points = <<>> THEN 0 ELSE points[1][k] + SumOf(Tail(points), k)

\* calculatePolygonCentroid without the test of the area against 1e-10
calculatePolygonCentroidNoFallback(points) ==
    IF Len(points) = 0 THEN RatPoint(<<0, 0>>)
    ELSE IF Len(points) = 1 THEN RatPoint(points[1])
    ELSE IF Len(points) = 2
         THEN <<Rat(points[1][1] + points[2][1], 2), Rat(points[1][2] + points[2][2], 2)>>
    ELSE LET sums == ShoelaceSums(points, Len(points))
         IN <<Rat(sums[2], 3 * sums[1]), Rat(sums[3], 3 * sums[1])>>

\* calculatePolygonCentroid: area is half the first sum, so 6 * area is three
\* times it, and |area| < 1e-10 holds for integer coordinates exactly when it is 0
calculatePolygonCentroid(points) ==
    IF Len(points) = 0 THEN RatPoint(<<0, 0>>)
    ELSE IF Len(points) = 1 THEN RatPoint(points[1])
    ELSE IF Len(points) = 2
         THEN <<Rat(points[1][1] + points[2][1], 2), Rat(points[1][2] + points[2][2], 2)>>
    ELSE LET sums == ShoelaceSums(points, Len(points))
         IN IF sums[1] = 0
            THEN <<Rat(SumOf(points, 1), Len(points)), Rat(SumOf(points, 2), Len(points))>>
            ELSE <<Rat(sums[2], 3 * sums[1]), Rat(sums[3], 3 * sums[1])>>

\* points.map(p => p[k])
Column(points, k) == [i \in 1..Len(points) |-> points[i][k]]

\* The bounding box SquareSelector's contextmenu passes as geometry
SquareGeometry(points) ==
    [type |-> "square",
     bounds |-> <<<<MinOf(Column(points, 1)), MinOf(Column(points, 2))>>,
                  <<MaxOf(Column(points, 1)), MaxOf(Column(points, 2))>>>>]

\* --------------------------------------------------------- CircleSelector
\* calculateDistance (haversine, R = 6371000 m) on the coordinates of
\* MapPoints, in metres rounded to the nearest integer
DistanceTable ==
    {<<<<0, 0>>, <<0, 3>>, 333585>>, <<<<0, 0>>, <<3, 0>>, 333585>>,
     <<<<0, 0>>, <<1, 1>>, 157249>>, <<<<0, 3>>, <<3, 0>>, 471652>>,
     <<<<0, 3>>, <<1, 1>>, 248629>>, <<<<3, 0>>, <<1, 1>>, 248607>>}

calculateDistance(pos1, pos2) ==
    IF pos1 = pos2 THEN 0
    ELSE (CHOOSE e \in DistanceTable : {e[1], e[2]} = {pos1, pos2})[3]

\* ------------------------------------------------------ RectangleSelector
\* createBounds taking the corners as they were clicked
createBoundsAsClicked(start, end) == <<start, end>>

\* createBounds
createBounds(start, end) ==
    <<<<Min(start[1], end[1]), Min(start[2], end[2])>>,
      <<Max(start[1], end[1]), Max(start[2], end[2])>>>>

\* calculateCenter
calculateCenter(start, end) ==
    <<Rat(start[1] + end[1], 2), Rat(start[2] + end[2], 2)>>

\* ------------------------------------- app/page.tsx, LeafletMapUpdated.tsx
\* What no map event touches
offMap == <<isWeatherFormOpen, mounted, formState, netState, history,
            populationState, callState>>

\* page.tsx handleLocationSelect(longitude, latitude): the value it stores,
\* written <<latitude, longitude>> as everywhere in this module
PageLocation(longitude, latitude) == <<latitude, longitude>>

\* LeafletMapUpdated handleShapeSelect(center): handleLocationSelect(center[1], center[0])
handleShapeSelect(center) == PageLocation(center[2], center[1])

\* A call of the onShapeComplete prop, as recorded in emitted
ShapeComplete(center, geometry) ==
    [fn |-> "onShapeComplete", center |-> center, geometry |-> geometry]

\* {mode === tool && <Selector/>}: the selector of the tool is mounted
SelectorMounted(tool) == mounted /\ selectedTool = tool

\* DrawingToolbar onToolSelect(isSelected ? null : tool.id) -> setSelectedTool.
\* The selector of the old mode unmounts and the one of the new mode mounts
\* with its initial state; markerPosition lives in MapComponent and stays.
OnToolSelect(tool) ==
    /\ mounted
    /\ selectedTool' = IF selectedTool = tool THEN Null ELSE tool
    /\ circle' = CircleInit
    /\ rectangle' = RectangleInit
    /\ square' = SquareInit
    /\ emitted' = <<>>
    /\ UNCHANGED <<selectedLocation, markerPosition, offMap, leafletState>>

\* MarkerSelector click -> handleMarkerPositionChange
MarkerClick(p) ==
    /\ SelectorMounted("marker")
    /\ markerPosition' = p
    /\ selectedLocation' = PageLocation(Rat(p[2], 1), Rat(p[1], 1))
    /\ emitted' = <<>>
    /\ UNCHANGED <<selectedTool, circle, rectangle, square, offMap, leafletState>>

\* SquareSelector click accepting one point beyond the cap
SquareClickOverCap(p) ==
    /\ SelectorMounted("square")
    /\ IF Len(square.points) <= PointCap
       THEN LET newPoints == Append(square.points, p)
            IN /\ square' = [square EXCEPT !.points =
                                IF Len(newPoints) >= 3 THEN convexHull(newPoints)
                                                       ELSE newPoints]
               /\ emitted' = <<>>
       ELSE /\ emitted' = <<[fn |-> "alert"]>>
            /\ UNCHANGED square
    /\ UNCHANGED <<selectedLocation, selectedTool, markerPosition, circle, rectangle,
                   offMap, leafletState>>

\* SquareSelector click
SquareClick(p) ==
    /\ SelectorMounted("square")
    /\ IF Len(square.points) < PointCap
       THEN LET newPoints == Append(square.points, p)
            IN /\ square' = [square EXCEPT !.points =
                                IF Len(newPoints) >= 3 THEN convexHull(newPoints)
                                                       ELSE newPoints]
               /\ emitted' = <<>>
       ELSE /\ emitted' = <<[fn |-> "alert"]>>
            /\ UNCHANGED square
    /\ UNCHANGED <<selectedLocation, selectedTool, markerPosition, circle, rectangle,
                   offMap, leafletState>>

\* SquareSelector contextmenu finalizing from 2 points on
SquareContextMenuFromTwo ==
    /\ SelectorMounted("square")
    /\ IF Len(square.points) >= 2
       THEN LET polygonCenter == calculatePolygonCentroid(square.points)
            IN /\ emitted' = <<ShapeComplete(polygonCenter, SquareGeometry(square.points))>>
               /\ selectedLocation' = handleShapeSelect(polygonCenter)
               /\ UNCHANGED square
       ELSE /\ square' = IF Len(square.points) > 0
                         THEN [square EXCEPT !.points = <<>>] ELSE square
            /\ emitted' = <<>>
            /\ UNCHANGED selectedLocation
    /\ UNCHANGED <<selectedTool, markerPosition, circle, rectangle, offMap, leafletState>>

\* SquareSelector contextmenu with `setPoints([])` after completion
SquareContextMenuClears ==
    /\ SelectorMounted("square")
    /\ IF Len(square.points) >= 3
       THEN LET polygonCenter == calculatePolygonCentroid(square.points)
            IN /\ emitted' = <<ShapeComplete(polygonCenter, SquareGeometry(square.points))>>
               /\ selectedLocation' = handleShapeSelect(polygonCenter)
               /\ square' = [square EXCEPT !.points = <<>>]
       ELSE /\ square' = IF Len(square.points) > 0
                         THEN [square EXCEPT !.points = <<>>] ELSE square
            /\ emitted' = <<>>
            /\ UNCHANGED selectedLocation
    /\ UNCHANGED <<selectedTool, markerPosition, circle, rectangle, offMap, leafletState>>

\* SquareSelector contextmenu
SquareContextMenu ==
    /\ SelectorMounted("square")
    /\ IF Len(square.points) >= 3
       THEN LET polygonCenter == calculatePolygonCentroid(square.points)
            IN /\ emitted' = <<ShapeComplete(polygonCenter, SquareGeometry(square.points))>>
               /\ selectedLocation' = handleShapeSelect(polygonCenter)
               /\ UNCHANGED square
       ELSE /\ square' = IF Len(square.points) > 0
                         THEN [square EXCEPT !.points = <<>>] ELSE square
            /\ emitted' = <<>>
            /\ UNCHANGED selectedLocation
    /\ UNCHANGED <<selectedTool, markerPosition, circle, rectangle, offMap, leafletState>>

\* SquareSelector mousemove
SquareMouseMove(p) ==
    /\ SelectorMounted("square")
    /\ square' = [square EXCEPT !.cursorPosition = p]
    /\ emitted' = <<>>
    /\ UNCHANGED <<selectedLocation, selectedTool, markerPosition, circle, rectangle,
                   offMap, leafletState>>

\* SquareSelector mouseout
SquareMouseOut ==
    /\ SelectorMounted("square")
    /\ square' = [square EXCEPT !.cursorPosition = NoPoint]
    /\ emitted' = <<>>
    /\ UNCHANGED <<selectedLocation, selectedTool, markerPosition, circle, rectangle,
                   offMap, leafletState>>

\* CircleSelector click restarting without clearing the radius
CircleClickRestartKeepsRadius(p) ==
    /\ SelectorMounted("circle")
    /\ circle' =
          IF circle.center = NoPoint
          THEN [circle EXCEPT !.center = p, !.isDrawing = TRUE]
          ELSE IF circle.isDrawing
          THEN [circle EXCEPT !.radius = calculateDistance(circle.center, p),
                              !.isDrawing = FALSE]
          ELSE [circle EXCEPT !.center = p, !.isDrawing = TRUE]
    /\ emitted' = <<>>
    /\ UNCHANGED <<selectedLocation, selectedTool, markerPosition, rectangle, square,
                   offMap, leafletState>>

\* CircleSelector click finalizing with the radius of the last preview
CircleClickKeepsPreview(p) ==
    /\ SelectorMounted("circle")
    /\ circle' =
          IF circle.center = NoPoint
          THEN [circle EXCEPT !.center = p, !.isDrawing = TRUE]
          ELSE IF circle.isDrawing
          THEN [circle EXCEPT !.isDrawing = FALSE]
          ELSE [circle EXCEPT !.center = p, !.radius = 0, !.isDrawing = TRUE]
    /\ emitted' = <<>>
    /\ UNCHANGED <<selectedLocation, selectedTool, markerPosition, rectangle, square,
                   offMap, leafletState>>

\* CircleSelector click.  The component takes no onShapeComplete prop and
\* calls nothing outward.
CircleClick(p) ==
    /\ SelectorMounted("circle")
    /\ circle' =
          IF circle.center = NoPoint
          THEN [circle EXCEPT !.center = p, !.isDrawing = TRUE]
          ELSE IF circle.isDrawing
          THEN [circle EXCEPT !.radius = calculateDistance(circle.center, p),
                              !.isDrawing = FALSE]
          ELSE [circle EXCEPT !.center = p, !.radius = 0, !.isDrawing = TRUE]
    /\ emitted' = <<>>
    /\ UNCHANGED <<selectedLocation, selectedTool, markerPosition, rectangle, square,
                   offMap, leafletState>>

\* CircleSelector contextmenu
CircleContextMenu ==
    /\ SelectorMounted("circle")
    /\ circle' = [circle EXCEPT !.center = NoPoint, !.radius = 0, !.isDrawing = FALSE]
    /\ emitted' = <<>>
    /\ UNCHANGED <<selectedLocation, selectedTool, markerPosition, rectangle, square,
                   offMap, leafletState>>

\* CircleSelector mousemove
CircleMouseMove(p) ==
    /\ SelectorMounted("circle")
    /\ circle' =
          IF circle.center # NoPoint /\ circle.isDrawing
          THEN [circle EXCEPT !.cursorPosition = p,
                              !.radius = calculateDistance(circle.center, p)]
          ELSE [circle EXCEPT !.cursorPosition = p]
    /\ emitted' = <<>>
    /\ UNCHANGED <<selectedLocation, selectedTool, markerPosition, rectangle, square,
                   offMap, leafletState>>

\* CircleSelector mouseout
CircleMouseOut ==
    /\ SelectorMounted("circle")
    /\ circle' = [circle EXCEPT !.cursorPosition = NoPoint]
    /\ emitted' = <<>>
    /\ UNCHANGED <<selectedLocation, selectedTool, markerPosition, rectangle, square,
                   offMap, leafletState>>

\* RectangleSelector click
RectangleClick(p) ==
    /\ SelectorMounted("rectangle")
    /\ IF rectangle.startPoint = NoPoint
       THEN /\ rectangle' = [rectangle EXCEPT !.startPoint = p, !.isDrawing = TRUE]
            /\ emitted' = <<>>
            /\ UNCHANGED selectedLocation
       ELSE IF rectangle.isDrawing
       THEN LET rectCenter == calculateCenter(rectangle.startPoint, p)
            IN /\ rectangle' = [rectangle EXCEPT !.endPoint = p, !.isDrawing = FALSE]
               /\ emitted' = <<ShapeComplete(rectCenter,
                                  [type |-> "rectangle",
                                   bounds |-> createBounds(rectangle.startPoint, p)])>>
               /\ selectedLocation' = handleShapeSelect(rectCenter)
       ELSE /\ rectangle' = [rectangle EXCEPT !.startPoint = p, !.endPoint = NoPoint,
                                              !.isDrawing = TRUE]
            /\ emitted' = <<>>
            /\ UNCHANGED selectedLocation
    /\ UNCHANGED <<selectedTool, markerPosition, circle, square, offMap, leafletState>>

\* RectangleSelector contextmenu resetting only a gesture in progress
RectangleContextMenuWhileDrawing ==
    /\ SelectorMounted("rectangle")
    /\ rectangle' = IF rectangle.isDrawing
                    THEN [rectangle EXCEPT !.startPoint = NoPoint, !.endPoint = NoPoint,
                                           !.isDrawing = FALSE]
                    ELSE rectangle
    /\ emitted' = <<>>
    /\ UNCHANGED <<selectedLocation, selectedTool, markerPosition, circle, square,
                   offMap, leafletState>>

\* RectangleSelector contextmenu
RectangleContextMenu ==
    /\ SelectorMounted("rectangle")
    /\ rectangle' = [rectangle EXCEPT !.startPoint = NoPoint, !.endPoint = NoPoint,
                                      !.isDrawing = FALSE]
    /\ emitted' = <<>>
    /\ UNCHANGED <<selectedLocation, selectedTool, markerPosition, circle, square,
                   offMap, leafletState>>

\* RectangleSelector mousemove dragging the corner of any rectangle
RectangleMouseMoveAlways(p) ==
    /\ SelectorMounted("rectangle")
    /\ rectangle' =
          IF rectangle.startPoint # NoPoint
          THEN [rectangle EXCEPT !.cursorPosition = p, !.endPoint = p]
          ELSE [rectangle EXCEPT !.cursorPosition = p]
    /\ emitted' = <<>>
    /\ UNCHANGED <<selectedLocation, selectedTool, markerPosition, circle, square,
                   offMap, leafletState>>

\* RectangleSelector mousemove
RectangleMouseMove(p) ==
    /\ SelectorMounted("rectangle")
    /\ rectangle' =
          IF rectangle.startPoint # NoPoint /\ rectangle.isDrawing
          THEN [rectangle EXCEPT !.cursorPosition = p, !.endPoint = p]
          ELSE [rectangle EXCEPT !.cursorPosition = p]
    /\ emitted' = <<>>
    /\ UNCHANGED <<selectedLocation, selectedTool, markerPosition, circle, square,
                   offMap, leafletState>>

\* RectangleSelector mouseout
RectangleMouseOut ==
    /\ SelectorMounted("rectangle")
    /\ rectangle' = [rectangle EXCEPT !.cursorPosition = NoPoint]
    /\ emitted' = <<>>
    /\ UNCHANGED <<selectedLocation, selectedTool, markerPosition, circle, square,
                   offMap, leafletState>>

\* How often p is a vertex of the list
Occurrences(points, p) == Cardinality({i \in 1..Len(points) : points[i] = p})

\* The clicks the model lets the user make on the polygon drawer: no place
\* becomes a vertex more than MaxRepeats times
ClickAdmitted(p) ==
    Len(square.points) < PointCap => Occurrences(square.points, p) < MaxRepeats

\* The polygon drawer of app/page.tsx: the toolbar and SquareSelector
NextPolygon ==
    \/ \E tool \in Tools : OnToolSelect(tool)
    \/ \E p \in MapPoints : ClickAdmitted(p) /\ SquareClick(p)
    \/ SquareContextMenu
    \/ \E p \in CursorPoints : SquareMouseMove(p)
    \/ SquareMouseOut

SpecPolygon == Init /\ [][NextPolygon]_vars

\* The other drawers of app/page.tsx: the toolbar, MarkerSelector,
\* CircleSelector and RectangleSelector
NextShapes ==
    \/ \E tool \in Tools : OnToolSelect(tool)
    \/ \E p \in MapPoints : MarkerClick(p)
    \/ \E p \in MapPoints : CircleClick(p)
    \/ CircleContextMenu
    \/ \E p \in MapPoints : CircleMouseMove(p)
    \/ CircleMouseOut
    \/ \E p \in MapPoints : RectangleClick(p)
    \/ RectangleContextMenu
    \/ \E p \in MapPoints : RectangleMouseMove(p)
    \/ RectangleMouseOut

SpecShapes == Init /\ [][NextShapes]_vars

\* --------------------------------------------- LeafletMap with MapEvents
\* What no event of LeafletMap touches
offLeaflet == <<selectedLocation, offMap, selectorState>>

\* L.LatLng distanceTo: metres between two points
distanceTo(a, b) == calculateDistance(a, b)

\* The arithmetic mean the dblclick handler and the finish button compute
MeanCenter(points) ==
    <<Rat(SumOf(points, 1), Len(points)), Rat(SumOf(points, 2), Len(points))>>

\* LeafletMap handleLocationSelect: the call of its onLocationSelect prop
LocationSelect(longitude, latitude) ==
    [fn |-> "onLocationSelect", longitude |-> longitude, latitude |-> latitude]

\* A handler that calls onLocationSelect(center.lng, center.lat),
\* onShapeCreated(shape) and onPreviewUpdate(preview): handleLocationSelect,
\* handleShapeCreated (the id stamp left out) and handlePreviewUpdate
ShapeCreated(center, shape, preview) ==
    /\ selectedPoint' = center
    /\ drawnShapes' = <<shape>>
    /\ previewShape' = preview
    /\ emitted' = <<LocationSelect(center[2], center[1])>>

\* A handler that only calls onPreviewUpdate(preview)
PreviewOnly(preview) ==
    /\ previewShape' = preview
    /\ emitted' = <<>>
    /\ UNCHANGED <<selectedPoint, drawnShapes>>

\* The drawingMode prop changes: both useEffect([drawingMode]) run
SetDrawingMode(mode) ==
    /\ mode # drawingMode
    /\ drawingMode' = mode
    /\ mapEvents' =
          [mapEvents EXCEPT
              !.polygonPoints = IF mode # "polygon" THEN <<>> ELSE @,
              !.isDrawing = IF mode # "circle" /\ mode # "rectangle" THEN FALSE ELSE @,
              !.startPoint = IF mode # "circle" /\ mode # "rectangle" THEN NoPoint ELSE @]
    /\ IF mode # Null
       THEN /\ drawnShapes' = <<>>
            /\ selectedPoint' = NoPoint
            /\ previewShape' = NoPreview
       ELSE UNCHANGED <<drawnShapes, selectedPoint, previewShape>>
    /\ emitted' = <<>>
    /\ UNCHANGED offLeaflet

\* MapEvents click
MapClick(p) ==
    /\ drawingMode = "polygon" => Len(mapEvents.polygonPoints) < MaxPolygonPoints
    /\ CASE drawingMode = "point" ->
              /\ ShapeCreated(RatPoint(p), [type |-> "point", center |-> p], NoPreview)
              /\ UNCHANGED mapEvents
         [] drawingMode = "circle" /\ ~mapEvents.isDrawing ->
              /\ mapEvents' = [mapEvents EXCEPT !.startPoint = p, !.isDrawing = TRUE]
              /\ PreviewOnly([type |-> "circle-center", center |-> p])
         [] drawingMode = "circle" /\ mapEvents.isDrawing ->
              /\ ShapeCreated(RatPoint(mapEvents.startPoint),
                              [type |-> "circle", center |-> mapEvents.startPoint,
                               radius |-> distanceTo(mapEvents.startPoint, p)],
                              NoPreview)
              /\ mapEvents' = [mapEvents EXCEPT !.isDrawing = FALSE, !.startPoint = NoPoint]
         [] drawingMode = "rectangle" /\ ~mapEvents.isDrawing ->
              /\ mapEvents' = [mapEvents EXCEPT !.startPoint = p, !.isDrawing = TRUE]
              /\ PreviewOnly([type |-> "rectangle-start", start |-> p])
         [] drawingMode = "rectangle" /\ mapEvents.isDrawing ->
              /\ ShapeCreated(calculateCenter(mapEvents.startPoint, p),
                              [type |-> "rectangle",
                               bounds |-> createBounds(mapEvents.startPoint, p)],
                              NoPreview)
              /\ mapEvents' = [mapEvents EXCEPT !.isDrawing = FALSE, !.startPoint = NoPoint]
         [] drawingMode = "polygon" ->
              LET newPoints == Append(mapEvents.polygonPoints, p)
              IN /\ mapEvents' = [mapEvents EXCEPT !.polygonPoints = newPoints]
                 /\ PreviewOnly([type |-> "polygon-points", points |-> newPoints])
         [] OTHER ->
              /\ emitted' = <<>>
              /\ UNCHANGED <<mapEvents, selectedPoint, drawnShapes, previewShape>>
    /\ UNCHANGED <<drawingMode, offLeaflet>>

\* MapEvents mousemove
MapMouseMove(p) ==
    /\ mapEvents' = [mapEvents EXCEPT !.mousePosition = p]
    /\ IF drawingMode = "circle" /\ mapEvents.isDrawing /\ mapEvents.startPoint # NoPoint
       THEN PreviewOnly([type |-> "circle-preview", center |-> mapEvents.startPoint,
                         radius |-> distanceTo(mapEvents.startPoint, p), mousePos |-> p])
       ELSE IF drawingMode = "rectangle" /\ mapEvents.isDrawing
                                            /\ mapEvents.startPoint # NoPoint
       THEN PreviewOnly([type |-> "rectangle-preview", start |-> mapEvents.startPoint,
                         end |-> p, bounds |-> createBounds(mapEvents.startPoint, p)])
       ELSE IF drawingMode = "polygon" /\ Len(mapEvents.polygonPoints) > 0
       THEN PreviewOnly([type |-> "polygon-preview", points |-> mapEvents.polygonPoints,
                         mousePos |-> p])
       ELSE /\ emitted' = <<>>
            /\ UNCHANGED <<selectedPoint, drawnShapes, previewShape>>
    /\ UNCHANGED <<drawingMode, offLeaflet>>

\* MapEvents dblclick taking its own coordinate as the last vertex
MapDblClickAppends(p) ==
    /\ IF drawingMode = "polygon" /\ Len(mapEvents.polygonPoints) >= 2
       THEN LET points == Append(mapEvents.polygonPoints, p)
                center == MeanCenter(points)
            IN /\ ShapeCreated(center,
                               [type |-> "polygon", points |-> points, center |-> center],
                               NoPreview)
               /\ mapEvents' = [mapEvents EXCEPT !.polygonPoints = <<>>]
       ELSE /\ emitted' = <<>>
            /\ UNCHANGED <<mapEvents, selectedPoint, drawnShapes, previewShape>>
    /\ UNCHANGED <<drawingMode, offLeaflet>>

\* MapEvents dblclick
MapDblClick(p) ==
    /\ IF drawingMode = "polygon" /\ Len(mapEvents.polygonPoints) >= 2
       THEN LET center == MeanCenter(mapEvents.polygonPoints)
            IN /\ ShapeCreated(center,
                               [type |-> "polygon", points |-> mapEvents.polygonPoints,
                                center |-> center],
                               NoPreview)
               /\ mapEvents' = [mapEvents EXCEPT !.polygonPoints = <<>>]
       ELSE /\ emitted' = <<>>
            /\ UNCHANGED <<mapEvents, selectedPoint, drawnShapes, previewShape>>
    /\ UNCHANGED <<drawingMode, offLeaflet>>

\* previewShape?.points?.length >= 3
HasPreviewPoints ==
    /\ previewShape.type \in {"polygon-points", "polygon-preview"}
    /\ Len(previewShape.points) >= 3

\* The "Finish Polygon" button of LeafletMap
FinishPolygonClick ==
    /\ drawingMode = "polygon"
    /\ HasPreviewPoints
    /\ LET center == MeanCenter(previewShape.points)
       IN /\ selectedPoint' = center
          /\ drawnShapes' = <<[type |-> "polygon", points |-> previewShape.points,
                               center |-> center]>>
          /\ emitted' = <<LocationSelect(center[2], center[1])>>
    /\ UNCHANGED <<drawingMode, mapEvents, previewShape, offLeaflet>>

\* The "Clear All" button of LeafletMap: clearShapes
ClearAllClick ==
    /\ Len(drawnShapes) > 0
    /\ drawnShapes' = <<>>
    /\ selectedPoint' = NoPoint
    /\ previewShape' = NoPreview
    /\ emitted' = <<>>
    /\ UNCHANGED <<drawingMode, mapEvents, offLeaflet>>

\* LeafletMap under its parent's toolbar
NextLeaflet ==
    \/ \E mode \in DrawingModes \cup {Null} : SetDrawingMode(mode)
    \/ \E p \in LeafletPoints : MapClick(p)
    \/ \E p \in CursorPoints : MapMouseMove(p)
    \/ \E p \in LeafletPoints : MapDblClick(p)
    \/ FinishPolygonClick
    \/ ClearAllClick

SpecLeaflet == Init /\ [][NextLeaflet]_vars

\* --------------------------------------------------------------- C11
\* The drawing handler of LeafletMap is Idle
MapEventsIdle(m) ==
    /\ ~m.isDrawing
    /\ m.startPoint = NoPoint
    /\ m.polygonPoints = <<>>

\* C11: after any change of the active tool the drawing handler is Idle:
\* isDrawing is false, startPoint is null and the polygon point list is empty,
\* whichever tools the change is between.
C11_ToolSwitchResets ==
    [][drawingMode' # drawingMode => MapEventsIdle(mapEvents')]_vars

\* --------------------------------------------------------------- C12
\* C12: no finalize transition of the circle and rectangle drawers produces a
\* degenerate shape: the click that ends a circle gesture leaves a radius
\* above 0, and the rectangle handed to the completion callback has a
\* positive extent in latitude and in longitude.
C12_NoDegenerateFinalize ==
    [][/\ (selectedTool = "circle" /\ circle.isDrawing /\ ~circle'.isDrawing
              /\ circle'.center # NoPoint)
          => circle'.radius > 0
       /\ (selectedTool = "rectangle" /\ Len(emitted') = 1)
          => /\ emitted'[1].geometry.bounds[1][1] < emitted'[1].geometry.bounds[2][1]
             /\ emitted'[1].geometry.bounds[1][2] < emitted'[1].geometry.bounds[2][2]]_vars

\* --------------------------------------------------------------- C13
\* C13: once at least 3 points are collected, the stored vertex sequence of
\* the polygon drawer, traversed in order and closed, is a convex polygon:
\* no two consecutive triples turn in opposite directions.
C13_VerticesConvex ==
    LET n == Len(square.points)
        at(i) == square.points[((i - 1) % n) + 1]
        turn(i) == (at(i + 1)[1] - at(i)[1]) * (at(i + 2)[2] - at(i + 1)[2])
                   - (at(i + 1)[2] - at(i)[2]) * (at(i + 2)[1] - at(i + 1)[1])
    IN n >= 3 => \/ \A i \in 1..n : turn(i) >= 0
                 \/ \A i \in 1..n : turn(i) <= 0

\* --------------------------------------------------------------- C14
\* C14: when three clicked points form a triangle, a fourth click strictly
\* inside that triangle does not become a vertex: the list keeps at most 3
\* points and the interior point is not among them.
C14_InteriorPointDropped ==
    [][LET tri == square.points
           side(a, b, p) == (b[1] - a[1]) * (p[2] - a[2]) - (b[2] - a[2]) * (p[1] - a[1])
           inside(p) == \/ /\ side(tri[1], tri[2], p) > 0
                           /\ side(tri[2], tri[3], p) > 0
                           /\ side(tri[3], tri[1], p) > 0
                        \/ /\ side(tri[1], tri[2], p) < 0
                           /\ side(tri[2], tri[3], p) < 0
                           /\ side(tri[3], tri[1], p) < 0
       IN (selectedTool = "square" /\ selectedTool' = "square" /\ Len(tri) = 3)
          => \A p \in MapPoints :
                inside(p) => \A i \in 1..Len(square'.points) : square'.points[i] # p]_vars

\* --------------------------------------------------------------- C15
\* C15: the polygon vertex count never exceeds 8; while 8 points are stored
\* no event of the drawer changes the vertex list, and the click that is
\* answered with the alert happens only at the cap and changes nothing of the
\* drawer or of the page.
C15_PointCap ==
    [][/\ Len(square'.points) <= PointCap
       /\ (Len(square.points) = PointCap /\ selectedTool' = selectedTool)
          => square'.points = square.points
       /\ (Len(emitted') = 1 /\ emitted'[1].fn = "alert")
          => /\ Len(square.points) = PointCap
             /\ UNCHANGED <<pageState, formState, netState, history, selectorState,
                            leafletState>>]_vars

C15_Witness ==
    /\ Len(square.points) = PointCap
    /\ emitted = <<[fn |-> "alert"]>>

\* --------------------------------------------------------------- C16
\* C16: a right-click on the polygon drawer with at least 3 collected points
\* invokes the completion callback exactly once, with the centroid of the
\* current vertex list as center; with 1 or 2 collected points it invokes no
\* callback and empties the list.
C16_RightClick ==
    [][SquareContextMenu =>
          /\ Len(square.points) >= 3
             => /\ Len(emitted') = 1
                /\ emitted'[1].fn = "onShapeComplete"
                /\ emitted'[1].center = calculatePolygonCentroid(square.points)
          /\ Len(square.points) \in {1, 2}
             => /\ emitted' = <<>>
                /\ square'.points = <<>>]_vars

C16_Witness ==
    /\ Len(square.points) >= 3
    /\ Len(emitted) = 1
    /\ emitted[1].fn = "onShapeComplete"
    /\ emitted[1].center = calculatePolygonCentroid(square.points)

C18_CircleFinalizeEmits ==
    [][(selectedTool = "circle" /\ circle.isDrawing /\ ~circle'.isDrawing
           /\ circle'.center # NoPoint)
       => /\ Len(emitted') = 1
          /\ emitted'[1].fn = "onShapeComplete"
          /\ selectedLocation' = RatPoint(circle.center)]_vars

\* --------------------------------------------------------------- C19
\* C19: the click that finalizes a circle stores as radius the distance from
\* the center, which is the first click, to the point of that click, whatever
\* radius the pointer moves in between have previewed.
C19_RadiusFromClick ==
    [][\A p \in MapPoints :
          (selectedTool = "circle" /\ circle.isDrawing /\ CircleClick(p))
          => /\ circle'.center = circle.center
             /\ circle'.radius = calculateDistance(circle.center, p)
             /\ ~circle'.isDrawing]_vars

C19_Witness ==
    /\ selectedTool = "circle"
    /\ circle.center # NoPoint
    /\ ~circle.isDrawing
    /\ circle.radius > 0
    /\ circle.cursorPosition # NoPoint
    /\ circle.radius # calculateDistance(circle.center, circle.cursorPosition)

\* --------------------------------------------------------------- C20
\* C20: a right-click on the circle drawer or on the rectangle drawer, in any
\* state of the drawer, leaves it Idle: center null, radius 0 and isDrawing
\* false for the circle; startPoint null, endPoint null and isDrawing false
\* for the rectangle.
C20_RightClickResets ==
    [][/\ CircleContextMenu
          => /\ circle'.center = NoPoint
             /\ circle'.radius = 0
             /\ ~circle'.isDrawing
       /\ RectangleContextMenu
          => /\ rectangle'.startPoint = NoPoint
             /\ rectangle'.endPoint = NoPoint
             /\ ~rectangle'.isDrawing]_vars

C20_Witness ==
    /\ selectedTool = "rectangle"
    /\ selectedLocation # NoLocation
    /\ rectangle.cursorPosition # NoPoint
    /\ rectangle.startPoint = NoPoint
    /\ rectangle.endPoint = NoPoint
    /\ ~rectangle.isDrawing
    /\ emitted = <<>>

\* --------------------------------------------------------------- C21
\* C21: a click on the circle drawer while a finalized circle is shown starts
\* a new gesture: the clicked point is the new center, the radius is 0 and
\* the drawer is drawing; the one circle the drawer holds is the new one.
C21_ClickRestarts ==
    [][\A p \in MapPoints :
          (selectedTool = "circle" /\ circle.center # NoPoint /\ ~circle.isDrawing
              /\ CircleClick(p))
          => /\ circle'.center = p
             /\ circle'.radius = 0
             /\ circle'.isDrawing]_vars

C21_Witness ==
    /\ selectedTool = "circle"
    /\ circle.center # NoPoint
    /\ ~circle.isDrawing
    /\ circle.radius > 0

\* --------------------------------------------------------------- C22
\* C22: the rectangle finalized by clicking a and then b does not depend on
\* the order of the two clicks: the bounds handed to the completion callback
\* are [[min lat, min lng], [max lat, max lng]], and bounds and center are
\* those that createBounds and calculateCenter give for b and then a.
C22_ClickOrder ==
    [][\A b \in MapPoints :
          (selectedTool = "rectangle" /\ rectangle.isDrawing /\ RectangleClick(b))
          => LET a == rectangle.startPoint
                 lo(x, y) == IF x <= y THEN x ELSE y
                 hi(x, y) == IF x >= y THEN x ELSE y
             IN /\ Len(emitted') = 1
                /\ emitted'[1].geometry.bounds =
                      <<<<lo(a[1], b[1]), lo(a[2], b[2])>>, <<hi(a[1], b[1]), hi(a[2], b[2])>>>>
                /\ emitted'[1].geometry.bounds = createBounds(b, a)
                /\ emitted'[1].center = calculateCenter(b, a)]_vars

C22_Witness ==
    /\ selectedTool = "rectangle"
    /\ Len(emitted) = 1
    /\ rectangle.startPoint = <<3, 0>>
    /\ rectangle.endPoint = <<0, 3>>
    /\ emitted[1].geometry.bounds = <<<<0, 0>>, <<3, 3>>>>

\* ------------------------------------------- the geometry functions alone
\* calculatePolygonArea without the edge from the last point back to the first
calculatePolygonAreaOpen(points) ==
    IF Len(points) < 3 THEN Rat(0, 1)
    ELSE Rat(Abs(ShoelaceSums(points, Len(points) - 1)[1]) * 111 * 111, 2)

\* calculatePolygonArea: square degrees times 111 * 111, as a fraction
calculatePolygonArea(points) ==
    IF Len(points) < 3 THEN Rat(0, 1)
    ELSE Rat(Abs(ShoelaceSums(points, Len(points))[1]) * 111 * 111, 2)

\* What SquareSelector stores after the clicks, in order, on the given list
RECURSIVE ClicksFrom(_, _)
ClicksFrom(points, clicks) ==
    IF clicks = <<>> THEN points
    ELSE IF Len(points) < PointCap
    THEN LET newPoints == Append(points, Head(clicks))
         IN ClicksFrom(IF Len(newPoints) >= 3 THEN convexHull(newPoints) ELSE newPoints,
                       Tail(clicks))
    ELSE ClicksFrom(points, Tail(clicks))

\* What no call of a geometry function touches
offCall == <<pageState, formState, netState, history, selectorState, leafletState,
             emitted, populationState, argPoints>>

CallConvexHull ==
    /\ calledFn' = "convexHull"
    /\ returned' = convexHull(argPoints)
    /\ UNCHANGED offCall

CallCentroid ==
    /\ calledFn' = "calculatePolygonCentroid"
    /\ returned' = calculatePolygonCentroid(argPoints)
    /\ UNCHANGED offCall

CallArea ==
    /\ calledFn' = "calculatePolygonArea"
    /\ returned' = calculatePolygonArea(argPoints)
    /\ UNCHANGED offCall

\* The points are clicked one after the other on a fresh SquareSelector
CallClicks ==
    /\ calledFn' = "click"
    /\ returned' = ClicksFrom(<<>>, argPoints)
    /\ UNCHANGED offCall

NextGeometry ==
    \/ CallConvexHull
    \/ CallCentroid
    \/ CallArea
    \/ CallClicks

SpecGeometry == InitGeometry /\ [][NextGeometry]_vars

\* --------------------------------------------------------------- C23
\* C23: calculatePolygonCentroid called on the empty point list fails: no
\* coordinate comes back from the call.
C23_EmptyCentroidFails ==
    (calledFn = "calculatePolygonCentroid" /\ argPoints = <<>>)
    => returned \notin {<<Rat(lat, 1), Rat(lng, 1)>> : lat \in 0..3, lng \in 0..3}

\* --------------------------------------------------------------- C24
\* C24: convexHull is idempotent: for every point list of 3 or more points,
\* convexHull applied to what convexHull returned gives the same sequence.
C24_HullIdempotent ==
    (calledFn = "convexHull" /\ Len(argPoints) >= 3)
    => convexHull(returned) = returned

C24_Witness ==
    /\ calledFn = "convexHull"
    /\ Len(argPoints) >= 3
    /\ returned # argPoints
    /\ \E i, j \in 1..Len(returned) : returned[i] = <<1, 1>> /\ returned[j] = <<2, 2>>

\* --------------------------------------------------------------- C25
\* C25: calculatePolygonCentroid returns the point itself for 1 point, the
\* midpoint for 2 points and the arithmetic mean for 3 or more points on one
\* line, and no coordinate it returns comes from a division by zero.
C25_CentroidSmallAndCollinear ==
    calledFn = "calculatePolygonCentroid" =>
       LET n == Len(argPoints)
           cross(a, b, c) == (b[1] - a[1]) * (c[2] - a[2]) - (b[2] - a[2]) * (c[1] - a[1])
           collinear == \A i, j, k \in 1..n : cross(argPoints[i], argPoints[j], argPoints[k]) = 0
           mean(k) == Rat(SumOf(argPoints, k), n)
       IN /\ n = 1 => returned = <<Rat(argPoints[1][1], 1), Rat(argPoints[1][2], 1)>>
          /\ n = 2 => returned = <<Rat(argPoints[1][1] + argPoints[2][1], 2),
                                   Rat(argPoints[1][2] + argPoints[2][2], 2)>>
          /\ (n >= 3 /\ collinear) => returned = <<mean(1), mean(2)>>
          /\ returned[1][2] # 0 /\ returned[2][2] # 0

C25_Witness ==
    /\ calledFn = "calculatePolygonCentroid"
    /\ argPoints = <<<<0, 0>>, <<2, 2>>, <<1, 1>>>>
    /\ returned = <<<<1, 1>>, <<1, 1>>>>

\* --------------------------------------------------------------- C26
\* C26: the area calculatePolygonArea computes for a list of 3 or more
\* vertices is the same for every cyclic rotation of the list, and it is
\* never negative.
C26_AreaRotationInvariant ==
    (calledFn = "calculatePolygonArea" /\ Len(argPoints) >= 3) =>
       LET n == Len(argPoints)
           rotated(k) == [i \in 1..n |-> argPoints[((i + k - 1) % n) + 1]]
       IN /\ \A k \in 1..n : calculatePolygonArea(rotated(k)) = returned
          /\ returned[1] >= 0
          /\ returned[2] > 0

C26_Witness ==
    /\ calledFn = "calculatePolygonArea"
    /\ argPoints = <<<<0, 0>>, <<0, 3>>, <<3, 0>>>>
    /\ returned = Rat(9 * 111 * 111, 2)

\* ------------------------------------------ the page with population analysis
\* The geometries a selector can pass with a location
Geometries ==
    {[type |-> "square", bounds |-> <<<<0, 0>>, <<3, 3>>>>],
     [type |-> "rectangle", bounds |-> <<<<0, 0>>, <<3, 3>>>>],
     [type |-> "circle", center |-> [lat |-> 0, lon |-> 0], radius |-> 0]}

\* What no population handler touches
offPopulation == <<isWeatherFormOpen, mounted, formState, netState, history,
                   selectorState, leafletState, callState>>

\* handleLocationSelect of the page with population analysis; geometry is
\* NoGeometry when the caller passes none
PageHandleLocationSelect(longitude, latitude, geometry) ==
    /\ mounted
    /\ selectedLocation' = PageLocation(longitude, latitude)
    /\ selectedGeometry' =
          IF geometry # NoGeometry THEN geometry
          ELSE IF selectedTool = "marker"
          THEN [type |-> "marker", center |-> [lat |-> latitude, lon |-> longitude]]
          ELSE selectedGeometry
    /\ emitted' = <<>>
    /\ UNCHANGED <<isPopulationModalOpen, populationData, isLoadingPopulation,
                   populationRequests, latestPopulationRequest, offPopulation>>

\* The geometryPayload handlePopulationRequest builds
GeometryPayload(geometry) ==
    IF geometry.type = "circle"
    THEN [type |-> "circle", center |-> geometry.center,
          radius |-> IF geometry.radius = 0 THEN 50 ELSE geometry.radius]
    ELSE IF geometry.type \in {"square", "rectangle"}
    THEN [type |-> geometry.type, bounds |-> geometry.bounds]
    ELSE [type |-> geometry.type]

\* handlePopulationRequest sending whatever geometry is selected
HandlePopulationRequestUnguarded ==
    /\ mounted
    /\ Len(populationRequests) < MaxPopulationRequests
    /\ isLoadingPopulation' = TRUE
    /\ isPopulationModalOpen' = TRUE
    /\ populationData' = Null
    /\ populationRequests' = Append(populationRequests, GeometryPayload(selectedGeometry))
    /\ latestPopulationRequest' = GeometryPayload(selectedGeometry)
    /\ emitted' = <<>>
    /\ UNCHANGED <<selectedLocation, selectedGeometry, offPopulation>>

\* handlePopulationRequest up to its await
HandlePopulationRequest ==
    /\ mounted
    /\ Len(populationRequests) < MaxPopulationRequests
    /\ IF selectedGeometry = NoGeometry \/ selectedGeometry.type = "marker"
       THEN /\ emitted' = <<>>
            /\ UNCHANGED populationState
       ELSE /\ isLoadingPopulation' = TRUE
            /\ isPopulationModalOpen' = TRUE
            /\ populationData' = Null
            /\ populationRequests' =
                  Append(populationRequests, GeometryPayload(selectedGeometry))
            /\ latestPopulationRequest' = GeometryPayload(selectedGeometry)
            /\ emitted' = <<>>
            /\ UNCHANGED selectedGeometry
    /\ UNCHANGED <<selectedLocation, offPopulation>>

\* handlePopulationClick of the date slider, run whatever the button shows
HandlePopulationClick ==
    IF selectedGeometry = NoGeometry \/ selectedGeometry.type = "marker"
    THEN /\ mounted
         /\ emitted' = <<[fn |-> "alert"]>>
         /\ UNCHANGED <<selectedLocation, populationState, offPopulation>>
    ELSE HandlePopulationRequest

\* await api.analyzePopulation(...) resolves for the i-th call in flight
AnalyzePopulationReturns(i, success) ==
    /\ i \in 1..Len(populationRequests)
    /\ populationRequests' =
          [k \in 1..(Len(populationRequests) - 1) |->
              IF k < i THEN populationRequests[k] ELSE populationRequests[k + 1]]
    /\ populationData' = IF success THEN populationRequests[i].type ELSE populationData
    /\ emitted' = IF success THEN <<>> ELSE <<[fn |-> "alert"]>>
    /\ isLoadingPopulation' = FALSE
    /\ UNCHANGED <<selectedLocation, selectedGeometry, isPopulationModalOpen,
                   latestPopulationRequest, offPopulation>>

\* await api.analyzePopulation(...) throws for the i-th call in flight
AnalyzePopulationThrows(i) ==
    /\ i \in 1..Len(populationRequests)
    /\ populationRequests' =
          [k \in 1..(Len(populationRequests) - 1) |->
              IF k < i THEN populationRequests[k] ELSE populationRequests[k + 1]]
    /\ emitted' = <<[fn |-> "alert"]>>
    /\ isLoadingPopulation' = FALSE
    /\ UNCHANGED <<selectedLocation, selectedGeometry, isPopulationModalOpen,
                   populationData, latestPopulationRequest, offPopulation>>

\* onClose of PopulationResultModal
ClosePopulationModal ==
    /\ mounted
    /\ isPopulationModalOpen
    /\ isPopulationModalOpen' = FALSE
    /\ emitted' = <<>>
    /\ UNCHANGED <<selectedLocation, selectedGeometry, populationData,
                   isLoadingPopulation, populationRequests, latestPopulationRequest,
                   offPopulation>>

NextPopulation ==
    \/ \E tool \in Tools : OnToolSelect(tool)
    \/ \E l \in Locations, g \in Geometries \cup {NoGeometry} :
          PageHandleLocationSelect(l[2], l[1], g)
    \/ HandlePopulationClick
    \/ HandlePopulationRequest
    \/ \E i \in 1..MaxPopulationRequests, success \in BOOLEAN :
          AnalyzePopulationReturns(i, success)
    \/ \E i \in 1..MaxPopulationRequests : AnalyzePopulationThrows(i)
    \/ ClosePopulationModal

SpecPopulation == Init /\ [][NextPopulation]_vars

\* --------------------------------------------------------------- C27
\* C27: a population analysis request is sent only while an area is selected:
\* every new analyzePopulation call is made with selectedGeometry non-null and
\* of a type other than 'marker', and without such a geometry the handlers of
\* the request return with no call made and nothing of the population state
\* changed.
C27_PopulationNeedsArea ==
    [][/\ Len(populationRequests') > Len(populationRequests)
          => (selectedGeometry # NoGeometry /\ selectedGeometry.type # "marker")
       /\ ((selectedGeometry = NoGeometry \/ selectedGeometry.type = "marker")
             /\ (HandlePopulationClick \/ HandlePopulationRequest))
          => UNCHANGED populationState]_vars

C27_Witness ==
    /\ Len(populationRequests) >= 1
    /\ selectedGeometry.type = "marker"
    /\ isLoadingPopulation

\* --------------------------------------------------------------- C28
\* C28: after the clicks of a list of 3 or more points, made in order on a
\* fresh polygon drawer, the stored vertex sequence equals convexHull applied
\* to the list of clicks in click order.
C28_StoredIsHullOfClicks ==
    (calledFn = "click" /\ Len(argPoints) >= 3) => returned = convexHull(argPoints)

\* --------------------------------------------------------------- C29
\* C29: for 3 or more points convexHull returns the input points rearranged:
\* first the lexicographically smallest point by latitude and then longitude,
\* then the others by non-decreasing polar angle around it; for fewer than 3
\* points it returns the input unchanged.
C29_HullShape ==
    calledFn = "convexHull" =>
       LET n == Len(argPoints)
           p0 == returned[1]
           lexLeq(a, b) == a[1] < b[1] \/ (a[1] = b[1] /\ a[2] <= b[2])
           d(x) == <<x[1] - p0[1], x[2] - p0[2]>>
           angleLeq(a, b) ==
              IF d(a) = <<0, 0>> THEN TRUE
              ELSE IF d(b) = <<0, 0>> THEN d(a)[1] = 0
              ELSE d(a)[2] * d(b)[1] - d(a)[1] * d(b)[2] >= 0
       IN IF n < 3 THEN returned = argPoints
          ELSE /\ Len(returned) = n
               /\ \A q \in GeoPoints : Occurrences(returned, q) = Occurrences(argPoints, q)
               /\ \A i \in 1..n : lexLeq(p0, argPoints[i])
               /\ \A i \in 2..(n - 1) : angleLeq(returned[i], returned[i + 1])

C29_Witness ==
    /\ calledFn = "convexHull"
    /\ argPoints = <<<<3, 0>>, <<2, 2>>, <<0, 0>>, <<1, 1>>>>
    /\ returned = <<<<0, 0>>, <<2, 2>>, <<1, 1>>, <<3, 0>>>>

\* ----------------------------------------- clicks and pointer moves only
\* The three area drawers of the page under clicks and pointer moves
NextDrawers ==
    \/ \E tool \in Tools : OnToolSelect(tool)
    \/ \E p \in MapPoints : ClickAdmitted(p) /\ SquareClick(p)
    \/ \E p \in CursorPoints : SquareMouseMove(p)
    \/ \E p \in MapPoints : CircleClick(p)
    \/ \E p \in MapPoints : CircleMouseMove(p)
    \/ \E p \in MapPoints : RectangleClick(p)
    \/ \E p \in MapPoints : RectangleMouseMove(p)

SpecDrawers == Init /\ [][NextDrawers]_vars

\* --------------------------------------------------------------- C30
\* C30: a pointer move never changes committed geometry: on the polygon
\* drawer it leaves the vertex list as it is in every state, and on the
\* circle and rectangle drawers after finalization it leaves center and
\* radius, startPoint and endPoint as they are.
C30_PointerMoveFrame ==
    [][/\ (\E p \in CursorPoints : SquareMouseMove(p))
          => square'.points = square.points
       /\ (circle.center # NoPoint /\ ~circle.isDrawing
             /\ \E p \in MapPoints : CircleMouseMove(p))
          => (circle'.center = circle.center /\ circle'.radius = circle.radius)
       /\ (rectangle.startPoint # NoPoint /\ ~rectangle.isDrawing
             /\ \E p \in MapPoints : RectangleMouseMove(p))
          => /\ rectangle'.startPoint = rectangle.startPoint
             /\ rectangle'.endPoint = rectangle.endPoint]_vars

C30_Witness ==
    /\ selectedTool = "rectangle"
    /\ rectangle.startPoint # NoPoint
    /\ rectangle.endPoint # NoPoint
    /\ ~rectangle.isDrawing
    /\ rectangle.cursorPosition # NoPoint
    /\ rectangle.cursorPosition # rectangle.endPoint
    /\ emitted = <<>>

\* C31: Completed and Failed are mutually exclusive outcomes of a poll
\* response: processing one response never both stores a result
\* (analysisResults or charts) and stores an error, also when the response
\* carries completed=true together with a non-empty error.
C31_OutcomesExclusive ==
    [][\A t \in TaskIds :
          (PollSettled(t) /\ (\E data \in PollResponses(t) : GetProgressReturns(t, data)))
              => ~(/\ (analysisResults' # analysisResults \/ charts' # charts)
                   /\ error' # error)]_vars

\* C32: terminal states are absorbing for a task: once an answer with
\* completed=true or an error has been processed for a task, no poll answer
\* of that task arriving later changes progress, analysisResults, charts,
\* error or isAnalyzing, whatever the interleaving of ticks and answers.
C32_TerminalAbsorbing ==
    [][\A t \in TaskIds :
          (/\ t \in settled
           /\ PollSettled(t)
           /\ \E data \in PollResponses(t) : GetProgressReturns(t, data))
              => UNCHANGED <<progress, analysisResults, charts, error, isAnalyzing>>]_vars

\* C33: in every reachable state isAnalyzing is false only if no poll
\* interval of the session is active (the Analyze button is never enabled
\* while a poll loop runs), so a session never runs two poll loops at once.
C33_IdleMeansNoPoll ==
    /\ ~isAnalyzing => pollIntervals = {}
    /\ Cardinality(pollIntervals) <= 1

\* C34: while isAnalyzing is true the stored progress, if non-null, was
\* returned by a poll of the task started by the latest handleSubmit: the
\* progress of an earlier task is never shown as that of the current one.
C34_ProgressOfLatestTask ==
    (mounted /\ isAnalyzing /\ progress # NullProgress) => progress.task = submitCount

\* C35: cleanupTask(id) is only ever issued for a task whose poll interval
\* has already been cleared: no cleanup (DELETE) request is sent for a task
\* id while a poll loop for that id is still active.
C35_CleanupAfterClear ==
    [][\A t \in TaskIds :
          t \in cleanupRequests' \ cleanupRequests => t \notin pollIntervals']_vars

\* C36: in the polygon drawer a right-click with at least 3 points leaves the
\* vertex list unchanged; later clicks keep extending the same polygon up to
\* the cap, and once 3 points are stored no click, pointer-move or
\* right-click reduces the vertex count while the tool stays selected.
C36_FinalizeKeepsPoints ==
    [][/\ (SquareContextMenu /\ Len(square.points) >= 3) => UNCHANGED square
       /\ (Len(square.points) >= 3 /\ selectedTool' = selectedTool)
             => Len(square'.points) >= Len(square.points)
       /\ \A p \in MapPoints :
             (/\ Len(square.points) >= 3
              /\ Len(square.points) < PointCap
              /\ SquareClick(p))
                => Len(square'.points) = Len(square.points) + 1]_vars

\* A polygon was finalized and the drawer, still selected, now holds more
\* vertices than the 3 a triangle finalized at that center has
C36_Witness ==
    /\ selectedTool = "square"
    /\ selectedLocation = handleShapeSelect(calculatePolygonCentroid(<<<<0, 0>>, <<0, 3>>, <<3, 0>>>>))
    /\ Len(square.points) > 3

\* C37: the page's selected location is changed only by finalize events: a
\* right-click reset of a drawer, a pointer-move and a tool switch leave
\* selectedLocation unchanged, so it always equals the center of the last
\* finalized region and, once non-null, never becomes null again.
C37_LocationFollowsFinalize ==
    [][/\ selectedLocation' # selectedLocation
             => \/ Len(emitted') = 1 /\ emitted'[1].fn = "onShapeComplete"
                \/ \E p \in MapPoints : MarkerClick(p)
       /\ selectedLocation # NoLocation => selectedLocation' # NoLocation
       /\ (/\ rectangle'.startPoint # NoPoint
           /\ rectangle'.endPoint # NoPoint
           /\ ~rectangle'.isDrawing)
             => selectedLocation' =
                   handleShapeSelect(calculateCenter(rectangle'.startPoint,
                                                     rectangle'.endPoint))
       /\ (circle'.center # NoPoint /\ ~circle'.isDrawing)
             => selectedLocation' =
                   handleShapeSelect(<<Rat(circle'.center[1], 1),
                                       Rat(circle'.center[2], 1)>>)]_vars

\* C38: for every interleaving of population requests and their responses,
\* once all requests have resolved the displayed populationData is the data
\* of the most recently issued request (the late response of an older
\* request never overwrites a newer one), and isLoadingPopulation is true
\* whenever a request is still in flight.
C38_LatestRequestWins ==
    /\ (populationRequests = <<>> /\ populationData # Null)
          => populationData = latestPopulationRequest.type
    /\ Len(populationRequests) > 0 => isLoadingPopulation

=============================================================================
